---- MODULE Spec2Model ----
(***************************************************************************)
(* A model of src/ai_agent.py: main() of the portfolio update agent.       *)
(*                                                                         *)
(* The run is one sequential pipeline: read the environment, configure the *)
(* provider, enumerate its models, select one by the priority list, read   *)
(* the two target files, call generate_content once, and scan the reply    *)
(* line by line, overwriting the file each completed block names.          *)
(*                                                                         *)
(* Text is modelled as TLA+ strings and the string methods the code uses   *)
(* (startswith, strip, split, join) are computed character by character.   *)
(* A TLA+ string literal cannot hold the backtick character, so the model  *)
(* writes the backtick as "~" (BT): Fence is the three-backtick sequence.  *)
(* The filesystem is taken to accept every write (open(..., "w") does not  *)
(* raise).                                                                 *)
(***************************************************************************)
EXTENDS Integers, Sequences, FiniteSets, TLC

VARIABLES
    pc,                 \* position of main(): the statement to run next
    disk,               \* the filesystem: a function from path to content
    calls,              \* every outbound call and file operation so far, in order
    environ,            \* os.environ: GEMINI_API_KEY and ISSUE_NUMBER
    list_error,         \* whether the except clause of line 27 caught an exception
    listed,             \* the models genai.list_models() has yielded so far
    available_models,   \* line 21
    selected_model_name,\* line 42: None or Some(name)
    file_contents,      \* line 60: filename -> text read
    response_text,      \* line 106
    lines,              \* line 114
    idx,                \* number of elements of `lines` the for loop has consumed
    current_file,       \* line 110: None or Some(name)
    code_block_active,  \* line 111
    buffer              \* line 112

vars == <<pc, disk, calls, environ, list_error, listed, available_models, selected_model_name,
          file_contents, response_text, lines, idx, current_file,
          code_block_active, buffer>>

(***************************************************************************)
(* Bounds of the model.                                                    *)
(***************************************************************************)
MaxModels == 2      \* models one enumeration yields, at most
MaxLines == 4       \* lines of a reply drawn from every sequence over ShortLines
MaxBlocks == 2      \* chunks of a reply assembled from Chunks

(***************************************************************************)
(* Python values.                                                          *)
(***************************************************************************)
None == <<>>
Some(x) == <<x>>
\* Python truthiness of an optional string: None and "" are falsy.
Truthy(v) == v # None /\ v[1] # ""

BT == "~"
Fence == BT \o BT \o BT
NL == "\n"
Whitespace == {" ", "\t", "\r", NL}

\* str.startswith
StartsWith(s, p) == Len(s) >= Len(p) /\ SubSeq(s, 1, Len(p)) = p

RECURSIVE LStrip(_)
LStrip(s) ==
    IF Len(s) > 0 /\ SubSeq(s, 1, 1) \in Whitespace
    THEN LStrip(SubSeq(s, 2, Len(s)))
    ELSE s

RECURSIVE RStrip(_)
RStrip(s) ==
    IF Len(s) > 0 /\ SubSeq(s, Len(s), Len(s)) \in Whitespace
    THEN RStrip(SubSeq(s, 1, Len(s) - 1))
    ELSE s

\* str.strip()
Strip(s) == RStrip(LStrip(s))

\* str.find(sep, from): the least index >= from where sep occurs in s, 0 if none
RECURSIVE Find(_, _, _)
Find(s, sep, from) ==
    IF from + Len(sep) - 1 > Len(s) THEN 0
    ELSE IF SubSeq(s, from, from + Len(sep) - 1) = sep THEN from
    ELSE Find(s, sep, from + 1)

\* str.split(sep): the pieces of s between the occurrences of sep, left to right
RECURSIVE Split(_, _)
Split(s, sep) ==
    LET at == Find(s, sep, 1) IN
    IF at = 0 THEN <<s>>
    ELSE <<SubSeq(s, 1, at - 1)>> \o Split(SubSeq(s, at + Len(sep), Len(s)), sep)

\* sep.join(parts)
RECURSIVE Join(_, _)
Join(sep, parts) ==
    IF Len(parts) = 0 THEN ""
    ELSE IF Len(parts) = 1 THEN parts[1]
    ELSE parts[1] \o sep \o Join(sep, Tail(parts))

(***************************************************************************)
(* The environment and the provider: what main() can be handed.            *)
(***************************************************************************)
\* os.environ.get("GEMINI_API_KEY"): absent, empty, or set
ApiKeys == {None, Some(""), Some("key")}
\* os.environ.get("ISSUE_NUMBER"): absent, not a number, a number
IssueNumbers == {None, Some("seven"), Some("7")}

Digits == {"0", "1", "2", "3", "4", "5", "6", "7", "8", "9"}
\* int(v) returns rather than raises; over IssueNumbers: v is a string of decimal
\* digits (None raises TypeError, "seven" raises ValueError)
IntParses(v) ==
    /\ v # None
    /\ Len(v[1]) > 0
    /\ \A i \in 1..Len(v[1]) : SubSeq(v[1], i, i) \in Digits

files_to_read == <<"index.html", "style.css">>
Sentinel == "(File does not exist yet)"

priority_models == <<
    "models/gemini-3-pro-preview",
    "models/gemini-2.0-pro-exp",
    "models/gemini-2.5-pro",
    "models/gemini-2.0-flash",
    "models/gemini-1.5-pro-latest",
    "models/gemini-1.5-pro",
    "models/gemini-1.5-flash",
    "models/gemini-pro" >>
FallbackModel == "gemini-pro"

\* The models an enumeration may yield: name and supported_generation_methods.
ModelNames == {"models/gemini-3-pro-preview", "models/gemini-2.5-pro",
               "models/gemini-pro", "models/embedding-001"}
MethodSets == {{"generateContent", "countTokens"}, {"embedContent"}}
Models == [name : ModelNames, supported_generation_methods : MethodSets]
\* The narrow catalog used where the reply, not the selection, is explored.
FewModels == [name : {"models/gemini-2.5-pro"},
              supported_generation_methods : {{"generateContent", "countTokens"}}]

(***************************************************************************)
(* The replies generate_content may return.  A reply is a text; its lines  *)
(* are every sequence of at most MaxLines lines over ShortLines, and every *)
(* concatenation of at most MaxBlocks chunks of Chunks.                    *)
(***************************************************************************)
ShortLines == {
    "FILE: index.html",
    "FILE: style.css",
    "  " \o Fence \o "html",
    "<p>",
    " FILE: index.html" }

Chunks == {
    \* a block with a blank content line and a content line holding backticks
    <<"FILE: index.html", Fence \o "html", "<p>", "", "x = " \o Fence, Fence>>,
    \* a block with a line before its opening fence, and indented fences
    <<"FILE: style.css", "Here it is:", "  " \o Fence \o "css", "p {}", " " \o Fence \o "  ">>,
    \* a block with no content for a third path, the name padded with blanks
    <<"FILE:  evil.py ", Fence, Fence>>,
    \* a block that is opened and not closed
    <<"FILE: index.html", Fence, "<b>">>,
    \* a marker line alone
    <<"FILE: style.css">>,
    \* a marker line with no name
    <<"FILE: ", Fence, "x", Fence>>,
    \* a marker line whose name holds the marker text
    <<"FILE: a FILE: b", Fence, "y", Fence>>,
    \* no marker line: a blank line, an indented marker, a fence
    <<"", " FILE: style.css", Fence>> }

ShortSeqs == UNION {[1..n -> ShortLines] : n \in 0..MaxLines}

RECURSIVE ChunkSeqs(_)
ChunkSeqs(n) ==
    IF n = 0 THEN {<<>>}
    ELSE LET prev == ChunkSeqs(n - 1) IN
         prev \cup {p \o c : p \in prev, c \in Chunks}

Replies == {Join(NL, ls) : ls \in ShortSeqs \cup ChunkSeqs(MaxBlocks)}
\* The narrow set of replies used where the selection, not the reply, is explored.
FewReplies == {Join(NL, <<"FILE: style.css", "Here it is:", "  " \o Fence \o "css",
                           "p {}", Fence>>)}

InitialDisks == {
    <<>>,
    [p \in {"index.html", "style.css"} |->
        IF p = "index.html" THEN "<h1>old</h1>" ELSE "h1 {}"] }

(***************************************************************************)
(* Helpers of the actions.                                                 *)
(***************************************************************************)
Call(op, path, text, at) == [op |-> op, path |-> path, text |-> text, at |-> at]

\* x in list
InList(x, list) == \E i \in 1..Len(list) : list[i] = x

\* lines 42-46: the first entry of the priority list that is in available_models
RECURSIVE PickPriority(_, _)
PickPriority(prio, avail) ==
    IF Len(prio) = 0 THEN None
    ELSE IF InList(Head(prio), avail) THEN Some(Head(prio))
    ELSE PickPriority(Tail(prio), avail)

\* lines 42-51: the selection with its fallback
SelectName(avail) ==
    LET picked == PickPriority(priority_models, avail) IN
    IF ~Truthy(picked) THEN Some(FallbackModel) ELSE picked

\* line 117: the name a marker line gives
MarkerName(l) == Strip(Split(l, "FILE: ")[2])

\* NewContent ending the file with a newline
NewContentTrailingNewline(buf) == Join(NL, buf) \o NL

\* line 124
NewContent(buf) == Join(NL, buf)

\* lines 126-127: open(path, "w") and write
WriteFile(d, path, text) ==
    [p \in DOMAIN d \cup {path} |-> IF p = path THEN text ELSE d[p]]

\* IsMarkerLine matching on the trimmed line, as the fence test does
IsMarkerLineTrimmed(l) == StartsWith(Strip(l), "FILE: ")

\* line 116
IsMarkerLine(l) == StartsWith(l, "FILE: ")
\* line 120, first conjunct
IsFenceLine(l) == StartsWith(Strip(l), Fence)

(***************************************************************************)
(* The state after the process starts, before main() runs a statement.     *)
(***************************************************************************)
Init ==
    /\ pc = "start"
    /\ disk \in InitialDisks
    /\ environ \in [GEMINI_API_KEY : ApiKeys, ISSUE_NUMBER : IssueNumbers]
    /\ calls = <<>>
    /\ list_error = FALSE
    /\ listed = <<>>
    /\ available_models = <<>>
    /\ selected_model_name = None
    /\ file_contents = <<>>
    /\ response_text = None
    /\ lines = <<>>
    /\ idx = 0
    /\ current_file = None
    /\ code_block_active = FALSE
    /\ buffer = <<>>

scanner == <<response_text, lines, idx, current_file, code_block_active, buffer>>
selection == <<list_error, listed, available_models, selected_model_name>>

(***************************************************************************)
(* Lines 7-17: the configuration.                                          *)
(***************************************************************************)
\* lines 7-10: no key, main returns
ConfigureNoKey ==
    /\ pc = "start"
    /\ ~Truthy(environ.GEMINI_API_KEY)
    /\ pc' = "returned"
    /\ UNCHANGED <<disk, calls, environ, file_contents, selection, scanner>>

\* ConfigureBadIssue with the conversion of line 14 ahead of the key test of line 8
ConfigureBadIssueFirst ==
    /\ pc = "start"
    /\ ~IntParses(environ.ISSUE_NUMBER)
    /\ pc' = "raised"
    /\ UNCHANGED <<disk, calls, environ, file_contents, selection, scanner>>

\* line 14: int() raises, nothing catches it
ConfigureBadIssue ==
    /\ pc = "start"
    /\ Truthy(environ.GEMINI_API_KEY)
    /\ ~IntParses(environ.ISSUE_NUMBER)
    /\ pc' = "raised"
    /\ UNCHANGED <<disk, calls, environ, file_contents, selection, scanner>>

\* lines 12-17
Configure ==
    /\ pc = "start"
    /\ Truthy(environ.GEMINI_API_KEY)
    /\ IntParses(environ.ISSUE_NUMBER)
    /\ calls' = Append(calls, Call("configure", "", "", 0))
    /\ pc' = "list"
    /\ UNCHANGED <<disk, environ, file_contents, selection, scanner>>

(***************************************************************************)
(* Lines 21-28: the enumeration.                                           *)
(***************************************************************************)
\* line 23: the call
ListModels ==
    /\ pc = "list"
    /\ calls' = Append(calls, Call("list_models", "", "", 0))
    /\ pc' = "listing"
    /\ UNCHANGED <<disk, environ, file_contents, selection, scanner>>

\* ListYield without the capability test of line 24
ListYieldAny(catalog, most) ==
    /\ pc = "listing"
    /\ Len(listed) < most
    /\ \E m \in catalog :
        /\ listed' = Append(listed, m)
        /\ available_models' = Append(available_models, m.name)
    /\ UNCHANGED <<pc, disk, calls, environ, file_contents, list_error,
                   selected_model_name, scanner>>

\* lines 23-26: one iteration, the enumeration yields m
ListYield(catalog, most) ==
    /\ pc = "listing"
    /\ Len(listed) < most
    /\ \E m \in catalog :
        /\ listed' = Append(listed, m)
        /\ available_models' =
              IF "generateContent" \in m.supported_generation_methods
              THEN Append(available_models, m.name)
              ELSE available_models
    /\ UNCHANGED <<pc, disk, calls, environ, file_contents, list_error,
                   selected_model_name, scanner>>

\* lines 27-28: the enumeration raises, the exception is caught
ListRaise ==
    /\ pc = "listing"
    /\ list_error' = TRUE
    /\ pc' = "select"
    /\ UNCHANGED <<disk, calls, environ, file_contents, listed, available_models,
                   selected_model_name, scanner>>

\* line 23: the enumeration is exhausted
ListEnd ==
    /\ pc = "listing"
    /\ pc' = "select"
    /\ UNCHANGED <<disk, calls, environ, file_contents, selection, scanner>>

(***************************************************************************)
(* Lines 31-54: the selection.                                             *)
(***************************************************************************)
SelectModel ==
    /\ pc = "select"
    /\ selected_model_name' = SelectName(available_models)
    /\ pc' = "read"
    /\ UNCHANGED <<disk, calls, environ, file_contents, list_error, listed,
                   available_models, scanner>>

(***************************************************************************)
(* Lines 59-67: one iteration of the loop over files_to_read.              *)
(***************************************************************************)
ReadFile ==
    /\ pc = "read"
    /\ LET filename == files_to_read[Cardinality(DOMAIN file_contents) + 1] IN
       IF filename \in DOMAIN disk
       THEN /\ file_contents' = WriteFile(file_contents, filename, disk[filename])
            /\ calls' = Append(calls, Call("read", filename, disk[filename], 0))
       ELSE /\ file_contents' = WriteFile(file_contents, filename, Sentinel)
            /\ calls' = Append(calls, Call("exists", filename, "", 0))
    /\ pc' = IF Cardinality(DOMAIN file_contents') = Len(files_to_read)
             THEN "generate" ELSE "read"
    /\ UNCHANGED <<disk, environ, selection, scanner>>

(***************************************************************************)
(* Lines 103-114: the one generation call, and the scanner's start.        *)
(***************************************************************************)
\* lines 105-114: the call returns the text t
GenerateReturns(replies) ==
    /\ pc = "generate"
    /\ \E t \in replies :
        /\ response_text' = Some(t)
        /\ lines' = Split(t, NL)
    /\ calls' = Append(calls, Call("generate_content", "", "", 0))
    /\ current_file' = None
    /\ code_block_active' = FALSE
    /\ buffer' = <<>>
    /\ idx' = 0
    /\ pc' = "scan"
    /\ UNCHANGED <<disk, environ, file_contents, selection>>

\* GenerateRaises catching the exception and calling again
GenerateRetries ==
    /\ pc = "generate"
    /\ calls' = Append(calls, Call("generate_content", "", "", 0))
    /\ pc' = "generate"
    /\ UNCHANGED <<disk, environ, file_contents, selection, scanner>>

\* lines 105-106: the call raises, nothing catches it
GenerateRaises ==
    /\ pc = "generate"
    /\ calls' = Append(calls, Call("generate_content", "", "", 0))
    /\ pc' = "raised"
    /\ UNCHANGED <<disk, environ, file_contents, selection, scanner>>

(***************************************************************************)
(* Lines 115-133: one iteration of the loop over the reply's lines, by     *)
(* the branch it takes.                                                    *)
(***************************************************************************)
Scanning == pc = "scan" /\ idx < Len(lines)
line == lines[idx + 1]

\* ScanMarker without the buffer reset of line 118
ScanMarkerKeepsBuffer ==
    /\ Scanning
    /\ IsMarkerLine(line)
    /\ current_file' = Some(MarkerName(line))
    /\ code_block_active' = FALSE
    /\ idx' = idx + 1
    /\ UNCHANGED <<pc, disk, calls, environ, file_contents, selection,
                   response_text, lines, buffer>>

\* lines 116-119
ScanMarker ==
    /\ Scanning
    /\ IsMarkerLine(line)
    /\ current_file' = Some(MarkerName(line))
    /\ buffer' = <<>>
    /\ code_block_active' = FALSE
    /\ idx' = idx + 1
    /\ UNCHANGED <<pc, disk, calls, environ, file_contents, selection,
                   response_text, lines>>

\* ScanCloseFence without the reset of line 128
ScanCloseFenceKeepsFile ==
    /\ Scanning
    /\ ~IsMarkerLine(line)
    /\ IsFenceLine(line) /\ Truthy(current_file)
    /\ code_block_active
    /\ code_block_active' = FALSE
    /\ disk' = WriteFile(disk, current_file[1], NewContent(buffer))
    /\ calls' = Append(calls, Call("write", current_file[1], NewContent(buffer), idx + 1))
    /\ idx' = idx + 1
    /\ UNCHANGED <<pc, environ, file_contents, selection, response_text, lines,
                   current_file, buffer>>

\* lines 120-128: the closing fence, the file is written
ScanCloseFence ==
    /\ Scanning
    /\ ~IsMarkerLine(line)
    /\ IsFenceLine(line) /\ Truthy(current_file)
    /\ code_block_active
    /\ code_block_active' = FALSE
    /\ disk' = WriteFile(disk, current_file[1], NewContent(buffer))
    /\ calls' = Append(calls, Call("write", current_file[1], NewContent(buffer), idx + 1))
    /\ current_file' = None
    /\ idx' = idx + 1
    /\ UNCHANGED <<pc, environ, file_contents, selection, response_text, lines, buffer>>

\* lines 120-121, 129-131: the opening fence
ScanOpenFence ==
    /\ Scanning
    /\ ~IsMarkerLine(line)
    /\ IsFenceLine(line) /\ Truthy(current_file)
    /\ ~code_block_active
    /\ code_block_active' = TRUE
    /\ idx' = idx + 1
    /\ UNCHANGED <<pc, disk, calls, environ, file_contents, selection,
                   response_text, lines, current_file, buffer>>

\* lines 132-133
ScanContent ==
    /\ Scanning
    /\ ~IsMarkerLine(line)
    /\ ~(IsFenceLine(line) /\ Truthy(current_file))
    /\ code_block_active
    /\ buffer' = Append(buffer, line)
    /\ idx' = idx + 1
    /\ UNCHANGED <<pc, disk, calls, environ, file_contents, selection,
                   response_text, lines, current_file, code_block_active>>

\* no branch of lines 116-133 is taken
ScanSkip ==
    /\ Scanning
    /\ ~IsMarkerLine(line)
    /\ ~(IsFenceLine(line) /\ Truthy(current_file))
    /\ ~code_block_active
    /\ idx' = idx + 1
    /\ UNCHANGED <<pc, disk, calls, environ, file_contents, selection,
                   response_text, lines, current_file, code_block_active, buffer>>

\* ScanEnd writing the block still open when the lines run out
ScanEndFlushes ==
    /\ pc = "scan"
    /\ idx = Len(lines)
    /\ pc' = "returned"
    /\ IF code_block_active
       THEN /\ disk' = WriteFile(disk, current_file[1], NewContent(buffer))
            /\ calls' = Append(calls, Call("write", current_file[1], NewContent(buffer), idx))
       ELSE UNCHANGED <<disk, calls>>
    /\ UNCHANGED <<environ, file_contents, selection, scanner>>

\* line 115: the loop ends, main returns
ScanEnd ==
    /\ pc = "scan"
    /\ idx = Len(lines)
    /\ pc' = "returned"
    /\ UNCHANGED <<disk, calls, environ, file_contents, selection, scanner>>

(***************************************************************************)
(* The specifications.  Spec explores the replies over a narrow catalog;   *)
(* SpecSelect explores the catalogs over a narrow set of replies.          *)
(***************************************************************************)
Step(catalog, most, replies) ==
    \/ ConfigureNoKey
    \/ ConfigureBadIssue
    \/ Configure
    \/ ListModels
    \/ ListYield(catalog, most)
    \/ ListRaise
    \/ ListEnd
    \/ SelectModel
    \/ ReadFile
    \/ GenerateReturns(replies)
    \/ GenerateRaises
    \/ ScanMarker
    \/ ScanCloseFence
    \/ ScanOpenFence
    \/ ScanContent
    \/ ScanSkip
    \/ ScanEnd

Next == Step(FewModels, Cardinality(FewModels), Replies)
Spec == Init /\ [][Next]_vars

NextSelect == Step(Models, MaxModels, FewReplies)
SpecSelect == Init /\ [][NextSelect]_vars

(***************************************************************************)
(* The reply as the claims describe it: its marker lines, fence lines and  *)
(* blocks, read off `lines` and `response_text` without running the        *)
(* scanner.                                                                *)
(***************************************************************************)
TargetFiles == {"index.html", "style.css"}

MarkerAt(n) == StartsWith(lines[n], "FILE: ")
FenceAt(n) == StartsWith(Strip(lines[n]), Fence)
NameAt(n) == MarkerName(lines[n])

SetMax(S) == CHOOSE x \in S : \A y \in S : y <= x
SetMin(S) == CHOOSE x \in S : \A y \in S : x <= y

\* the last marker line before line k, 0 if there is none
LastMarkerBefore(k) ==
    LET M == {i \in 1..(k - 1) : MarkerAt(i)} IN
    IF M = {} THEN 0 ELSE SetMax(M)

\* the first marker line after line p, Len(lines) + 1 if there is none
NextMarkerAfter(p) ==
    LET M == {i \in (p + 1)..Len(lines) : MarkerAt(i)} IN
    IF M = {} THEN Len(lines) + 1 ELSE SetMin(M)

\* the fence lines strictly between lines a and b
FencesBetween(a, b) == {j \in (a + 1)..(b - 1) : FenceAt(j)}

\* the offset in the reply of the first character of line n
RECURSIVE LineStart(_)
LineStart(n) == IF n = 1 THEN 1 ELSE LineStart(n - 1) + Len(lines[n - 1]) + 1

\* the text of the reply strictly between line j and line k: from the character
\* after the newline that ends line j to the character before the newline that
\* precedes line k
TextBetween(j, k) ==
    IF k = j + 1 THEN ""
    ELSE SubSeq(response_text[1], LineStart(j + 1), LineStart(k) - 2)

\* the closing fences among the first n lines: fence lines whose last marker
\* line names a file and has exactly one fence line (the opening fence) after it
ClosingFences(n) ==
    {k \in 1..n :
        /\ FenceAt(k)
        /\ LET i == LastMarkerBefore(k) IN
           /\ i > 0
           /\ NameAt(i) # ""
           /\ Cardinality(FencesBetween(i, k)) = 1}

\* the opening fence of the block that line k closes
OpeningFence(k) == SetMin(FencesBetween(LastMarkerBefore(k), k))

WriteCalls == {n \in 1..Len(calls) : calls[n].op = "write"}
Scanned == pc \in {"scan", "returned"} /\ response_text # None

\* a well-formed block: marker line i, opening fence j, closing fence k, and no
\* marker or fence line between them
IsBlock(i, j, k) ==
    /\ i < j /\ j < k
    /\ MarkerAt(i) /\ NameAt(i) # ""
    /\ FenceAt(j) /\ FenceAt(k)
    /\ \A m \in ((i + 1)..(k - 1)) \ {j} : ~MarkerAt(m) /\ ~FenceAt(m)

Blocks ==
    LET M == {n \in 1..Len(lines) : MarkerAt(n)}
        F == {n \in 1..Len(lines) : FenceAt(n)}
    IN  {b \in M \X F \X F : IsBlock(b[1], b[2], b[3])}

\* the reply is made of one or more sequential well-formed blocks, for distinct
\* filenames
WellFormedReply ==
    /\ Blocks # {}
    /\ \A n \in 1..Len(lines) : \E b \in Blocks : b[1] <= n /\ n <= b[3]
    /\ \A b, c \in Blocks : b # c => NameAt(b[1]) # NameAt(c[1])

(***************************************************************************)
(* C1. After the run over a reply made of well-formed blocks for distinct  *)
(* filenames, each named file holds exactly the text between its own       *)
(* block's fences: the content lines joined by single newlines, with no    *)
(* fence line, no line from before the opening fence, no trailing newline  *)
(* and no line of another block.                                           *)
(***************************************************************************)
C1_BlocksWrittenExactly ==
    (pc = "returned" /\ response_text # None /\ WellFormedReply) =>
        \A b \in Blocks :
            /\ NameAt(b[1]) \in DOMAIN disk
            /\ disk[NameAt(b[1])] = TextBetween(b[2], b[3])

\* two blocks, the stylesheet first, with a line before an opening fence and
\* content of several lines
C1_Witness ==
    /\ pc = "returned" /\ response_text # None /\ WellFormedReply
    /\ Cardinality(Blocks) = 2
    /\ NameAt(1) = "style.css"
    /\ ~FenceAt(2)
    /\ "index.html" \in DOMAIN disk /\ "style.css" \in DOMAIN disk
    /\ disk["index.html"] = "<p>" \o NL \o NL \o "x = " \o Fence
    /\ disk["style.css"] = "p {}"

(***************************************************************************)
(* C2. Every file write of the run targets index.html or style.css.        *)
(***************************************************************************)
C2_WritesOnlyTargetFiles ==
    \A n \in WriteCalls : calls[n].path \in TargetFiles

(***************************************************************************)
(* C3. A file is written only when a closing fence line is processed, for  *)
(* the name of the most recent marker line, which has been followed by an  *)
(* opening fence with no marker line in between; there are as many writes  *)
(* as completed blocks, so none without a marker line and none for a block *)
(* still open when the lines run out.                                      *)
(***************************************************************************)
C3_WritesAreCompletedBlocks ==
    /\ {calls[n].at : n \in WriteCalls} = IF Scanned THEN ClosingFences(idx) ELSE {}
    /\ Cardinality(WriteCalls) = IF Scanned THEN Cardinality(ClosingFences(idx)) ELSE 0
    /\ \A n \in WriteCalls : calls[n].path = NameAt(LastMarkerBefore(calls[n].at))

\* a run that ends with one block written and a later block left open
C3_Witness ==
    /\ pc = "returned" /\ response_text # None
    /\ Cardinality(WriteCalls) = 1
    /\ code_block_active
    /\ buffer # <<>>

(***************************************************************************)
(* C4. A marker line for B met after the opening fence of A's block and    *)
(* before its closing fence discards A's lines, and A is not written by    *)
(* that block; the next fence line opens B's block, and B is written, with *)
(* the text between its own fences, exactly when its block is then closed. *)
(***************************************************************************)
\* the marker lines among the first n lines that interrupt an open block
Interrupts(n) ==
    {p \in 1..n :
        /\ MarkerAt(p)
        /\ LET i == LastMarkerBefore(p) IN
           /\ i > 0
           /\ NameAt(i) # ""
           /\ Cardinality(FencesBetween(i, p)) = 1}

C4_InterruptedBlockDiscarded ==
    Scanned =>
        \A p \in Interrupts(idx) :
            LET a == LastMarkerBefore(p)
                stop == IF NextMarkerAfter(p) <= idx THEN NextMarkerAfter(p) ELSE idx + 1
                F == FencesBetween(p, stop)
                during == {n \in WriteCalls : a < calls[n].at /\ calls[n].at <= p}
                after == {n \in WriteCalls : p < calls[n].at /\ calls[n].at < stop}
            IN  /\ during = {}
                /\ idx = p =>
                      /\ buffer = <<>>
                      /\ ~code_block_active
                      /\ current_file = Some(NameAt(p))
                /\ IF Cardinality(F) >= 2 /\ NameAt(p) # ""
                   THEN \E n \in after :
                          /\ after = {n}
                          /\ calls[n].at = SetMin(F \ {SetMin(F)})
                          /\ calls[n].path = NameAt(p)
                          /\ calls[n].text = TextBetween(SetMin(F), calls[n].at)
                   ELSE after = {}

\* index.html opened with a line of content, then style.css named, opened and closed
C4_Witness ==
    /\ pc = "returned" /\ response_text # None
    /\ Interrupts(Len(lines)) # {}
    /\ \E p \in Interrupts(Len(lines)) :
          /\ NameAt(LastMarkerBefore(p)) = "index.html"
          /\ ~FenceAt(p - 1)
          /\ NameAt(p) = "style.css"
    /\ Cardinality(WriteCalls) = 1
    /\ \A n \in WriteCalls : calls[n].path = "style.css" /\ calls[n].text = "p {}"

(***************************************************************************)
(* C5. With GEMINI_API_KEY absent or empty, main returns without raising   *)
(* and makes no outbound call, file read or file write, whatever           *)
(* ISSUE_NUMBER holds.                                                     *)
(***************************************************************************)
C5_NoKeyNoEffect ==
    ~Truthy(environ.GEMINI_API_KEY) =>
        /\ pc \in {"start", "returned"}
        /\ calls = <<>>
        /\ disk \in InitialDisks
        /\ file_contents = <<>>

\* main has returned, with no key and an ISSUE_NUMBER that int() rejects
C5_Witness ==
    /\ pc = "returned"
    /\ environ.GEMINI_API_KEY = None
    /\ ~IntParses(environ.ISSUE_NUMBER)

(***************************************************************************)
(* C6. If the enumeration raises, before or after some models were         *)
(* yielded, the selected model is the fallback "gemini-pro".               *)
(***************************************************************************)
C6_ErrorSelectsFallback ==
    (list_error /\ selected_model_name # None) =>
        selected_model_name = Some("gemini-pro")

(***************************************************************************)
(* C7. The selected model is the entry of the priority list with the least *)
(* index among those in the catalog (the enumerated models that support    *)
(* generateContent), and "gemini-pro" if there is none; an enumerated      *)
(* model without generateContent is never selected through the list.       *)
(***************************************************************************)
Catalog ==
    {listed[i].name : i \in {j \in 1..Len(listed) :
        "generateContent" \in listed[j].supported_generation_methods}}

C7_FirstPriorityInCatalog ==
    selected_model_name # None =>
        LET present == {i \in 1..Len(priority_models) : priority_models[i] \in Catalog} IN
        /\ Len(priority_models) = 8
        /\ IF present = {}
           THEN selected_model_name = Some("gemini-pro")
           ELSE /\ selected_model_name = Some(priority_models[SetMin(present)])
                /\ selected_model_name[1] \in Catalog

\* the top entry is enumerated without generateContent and is skipped for the third
C7_Witness ==
    /\ selected_model_name = Some("models/gemini-2.5-pro")
    /\ \E i \in 1..Len(listed) :
          /\ listed[i].name = "models/gemini-3-pro-preview"
          /\ "generateContent" \notin listed[i].supported_generation_methods
    /\ "models/gemini-3-pro-preview" \notin Catalog

(***************************************************************************)
(* C8. Every file write follows the one generation call, both target files *)
(* are read before it and never again, and a run whose generation call     *)
(* raises ends there with no file write and no second call.                *)
(***************************************************************************)
GenerateCalls == {n \in 1..Len(calls) : calls[n].op = "generate_content"}
ReadCalls == {n \in 1..Len(calls) : calls[n].op \in {"read", "exists"}}

C8_ReadThenGenerateThenWrite ==
    /\ Cardinality(GenerateCalls) <= 1
    /\ \A n \in WriteCalls : \E g \in GenerateCalls : g < n /\ response_text # None
    /\ \A g \in GenerateCalls :
          /\ \A f \in TargetFiles :
                Cardinality({n \in ReadCalls : calls[n].path = f /\ n < g}) = 1
          /\ \A n \in ReadCalls : n < g
    /\ \A f \in TargetFiles : Cardinality({n \in ReadCalls : calls[n].path = f}) <= 1
    /\ pc = "raised" =>
          /\ WriteCalls = {}
          /\ disk \in InitialDisks
          /\ ~ENABLED Next

\* the generation call has raised after both existing files were read
C8_Witness ==
    /\ pc = "raised"
    /\ GenerateCalls # {}
    /\ Cardinality({n \in ReadCalls : calls[n].op = "read"}) = 2

(***************************************************************************)
(* C9. As stated: right after a closing fence line the scanner is fully    *)
(* reset, and in every scanner state current_file = none implies an empty  *)
(* buffer.                                                                 *)
(***************************************************************************)
C9_NoFileNoBuffer ==
    current_file = None => buffer = <<>>

\* the state right after a closing fence line was processed
JustClosed ==
    /\ pc = "scan" /\ idx > 0
    /\ idx \in ClosingFences(idx)

(***************************************************************************)
(* C9, amended. Right after a closing fence line current_file is none and  *)
(* code_block_active is false, but the buffer is not cleared: it holds the *)
(* lines just written; in every scanner state current_file = none implies *)
(* that code_block_active is false and that the buffer holds nothing, if   *)
(* no file was written yet, or else the lines of the most recent write.    *)
(***************************************************************************)
C9_ResetKeepsBuffer ==
    /\ JustClosed =>
          /\ current_file = None
          /\ ~code_block_active
          /\ buffer = SubSeq(lines, OpeningFence(idx) + 1, idx - 1)
    /\ current_file = None =>
          /\ ~code_block_active
          /\ IF WriteCalls = {}
             THEN buffer = <<>>
             ELSE LET k == SetMax(ClosingFences(idx)) IN
                  buffer = SubSeq(lines, OpeningFence(k) + 1, k - 1)

\* a block with content has just been closed
C9_Witness ==
    /\ JustClosed
    /\ current_file = None
    /\ Len(buffer) = 3

(***************************************************************************)
(* C10. While no file is current, a line that does not begin, at its first *)
(* character, with "FILE: " leaves current_file, code_block_active and the *)
(* buffer as they are and writes nothing; fence lines and lines with       *)
(* blanks before "FILE: " are such lines.                                  *)
(***************************************************************************)
C10_IdleIgnoresOtherLines ==
    [][(/\ pc = "scan" /\ idx < Len(lines)
        /\ current_file = None
        /\ ~StartsWith(lines[idx + 1], "FILE: "))
       => (/\ current_file' = current_file
           /\ code_block_active' = code_block_active
           /\ buffer' = buffer
           /\ calls' = calls
           /\ disk' = disk)]_vars

\* an indented marker line and then a fence line have been passed over
C10_Witness ==
    /\ pc = "scan" /\ idx = 2
    /\ lines[1] = " FILE: index.html"
    /\ FenceAt(2)
    /\ current_file = None
    /\ ~code_block_active
    /\ buffer = <<>>
    /\ WriteCalls = {}

====
